---- MODULE Spec2Model ----
(***************************************************************************)
(* Model of smart_ptrs.h: SharedPtr / WeakPtr over a heap-allocated        *)
(* ControlBlock with two size_t counters.                                  *)
(*                                                                         *)
(* The program state is a set of handle objects (SharedPtr and WeakPtr     *)
(* variables of the calling code), the heap of ControlBlock allocations    *)
(* and the heap of std::string values.  Every public operation of the two  *)
(* classes is one action.  The size_t counters are residues modulo 2^64;   *)
(* the model keeps an integer representative, ++ and -- are +1 and -1, and *)
(* the code's only tests on them (== 0, > 0 on an unsigned) are tests      *)
(* against zero, so `> 0` is `# 0` here.                                   *)
(***************************************************************************)
EXTENDS Integers, FiniteSets, Sequences, TLC

\* ---- bounds of the model ------------------------------------------------
NumShared == 2      \* SharedPtr objects the calling code may hold
NumWeak == 2        \* WeakPtr objects the calling code may hold
MaxBlocks == 2      \* ControlBlock / std::string allocations in one run

Null == 0           \* nullptr
SIds == 1..NumShared
WIds == 1..NumWeak
Blocks == 1..MaxBlocks
Vals == 1..MaxBlocks         \* strings the calling code hands to a SharedPtr
Ext == MaxBlocks + 1         \* a string the calling code keeps for itself
AllVals == Vals \cup {Ext}

\* values a read of a destroyed ControlBlock's counter may produce
Junk == 0..2

\* the two threads of the concurrent specification
Threads == {1, 2}

VARIABLES
    sp,     \* SharedPtr objects: [live, ptr_, block_]
    wp,     \* WeakPtr objects:   [live, block_, ptr_]
    blk,    \* ControlBlock heap: [state, shared_count_, weak_count_]
    val,    \* std::string heap:  "unalloc" | "alive" | "destroyed"
    hist,   \* history: deletes per value / block, who deleted a block,
            \* the value handed over with each block, access to a deleted
            \* block, whether operations of two threads have overlapped
    ret,    \* what the last call of IsExpired() returned
    thr     \* per thread: the operation it is in the middle of, and the
            \* counter value it has loaded

vars == <<sp, wp, blk, val, hist, ret, thr>>

\* the program state as one record, so that member functions compose
Cur == [sp |-> sp, wp |-> wp, blk |-> blk, val |-> val, hist |-> hist]

Set(st) ==
    /\ sp' = st.sp
    /\ wp' = st.wp
    /\ blk' = st.blk
    /\ val' = st.val
    /\ hist' = st.hist

\* ---- handle objects -----------------------------------------------------
\* a SharedPtr variable that is not (or no longer) constructed
NoShared == [live |-> FALSE, ptr_ |-> Null, block_ |-> Null]
\* SharedPtr() = default, with the member initialisers of lines 90-91
DefaultShared == [live |-> TRUE, ptr_ |-> Null, block_ |-> Null]
NoWeak == [live |-> FALSE, block_ |-> Null, ptr_ |-> Null]
\* WeakPtr() = default, with the member initialisers of lines 178-179
DefaultWeak == [live |-> TRUE, block_ |-> Null, ptr_ |-> Null]

\* ---- the heap -----------------------------------------------------------
\* class ControlBlock: both counters start at 0
ControlBlock == [state |-> "live", shared_count_ |-> 0, weak_count_ |-> 0]
FreeBlock == [state |-> "free", shared_count_ |-> 0, weak_count_ |-> 0]

HasFreeBlock(st) == \E b \in Blocks : st.blk[b].state = "free"
\* new ControlBlock(): the address of a fresh allocation
NewBlockAddr(st) ==
    CHOOSE b \in Blocks : /\ st.blk[b].state = "free"
                          /\ \A c \in Blocks : st.blk[c].state = "free" => b <= c

HasFreeVal(st) == \E v \in Vals : st.val[v] = "unalloc"
\* new std::string in the calling code: the address of a fresh value
NewValAddr(st) ==
    CHOOSE v \in Vals : /\ st.val[v] = "unalloc"
                        /\ \A u \in Vals : st.val[u] = "unalloc" => v <= u

Bump(n) == IF n >= 2 THEN 2 ELSE n + 1

\* block_->shared_count_ read through a ControlBlock*; a deleted block yields j
RdShared(st, b, j) ==
    IF st.blk[b].state = "live" THEN st.blk[b].shared_count_ ELSE j
RdWeak(st, b, j) ==
    IF st.blk[b].state = "live" THEN st.blk[b].weak_count_ ELSE j

WrShared(st, b, n) ==
    [st EXCEPT !.blk[b].shared_count_ = n,
               !.hist.uaf = @ \/ (st.blk[b].state # "live")]
WrWeak(st, b, n) ==
    [st EXCEPT !.blk[b].weak_count_ = n,
               !.hist.uaf = @ \/ (st.blk[b].state # "live")]

\* delete block_
DeleteBlock(st, b, who) ==
    [st EXCEPT !.blk[b].state = "deleted",
               !.hist.blkDeletes[b] = Bump(@),
               !.hist.freedBy[b] = who]

\* delete ptr_ (deleting nullptr does nothing)
DeleteVal(st, p) ==
    IF p = Null THEN st
    ELSE [st EXCEPT !.val[p] = "destroyed",
                    !.hist.valDeletes[p] = Bump(@)]

\* block_ = new ControlBlock() for the value p handed in by the caller
AllocBlock(st, b, p) ==
    [st EXCEPT !.blk[b] = ControlBlock,
               !.hist.managed[b] = p]

\* the caller's new std::string
AllocVal(st, v) == [st EXCEPT !.val[v] = "alive"]

\* ---- SharedPtr ----------------------------------------------------------
\* Release() with a post-decrement in the test: `shared_count_-- == 0`
SharedRelease_PostDecrement(st, s, j) ==
    LET b == st.sp[s].block_ IN
    IF b # Null
    THEN LET old == RdShared(st, b, j)
             s1 == WrShared(st, b, old - 1) IN
         IF old = 0
         THEN LET s2 == [DeleteVal(s1, s1.sp[s].ptr_) EXCEPT !.sp[s].ptr_ = Null] IN
              IF RdWeak(s2, b, j) = 0
              THEN [DeleteBlock(s2, b, "SharedPtr") EXCEPT !.sp[s].block_ = Null]
              ELSE s2
         ELSE s1
    ELSE st

\* Release() that frees the value only together with the block
SharedRelease_ValueWithBlock(st, s, j) ==
    LET b == st.sp[s].block_ IN
    IF b # Null
    THEN LET s1 == WrShared(st, b, RdShared(st, b, j) - 1) IN
         IF s1.blk[b].shared_count_ = 0
         THEN IF RdWeak(s1, b, j) = 0
              THEN LET s2 == [DeleteVal(s1, s1.sp[s].ptr_) EXCEPT !.sp[s].ptr_ = Null] IN
                   [DeleteBlock(s2, b, "SharedPtr") EXCEPT !.sp[s].block_ = Null]
              ELSE s1
         ELSE s1
    ELSE st

\* Release() that deletes the block without the test `weak_count_ == 0`
SharedRelease_NoWeakTest(st, s, j) ==
    LET b == st.sp[s].block_ IN
    IF b # Null
    THEN LET s1 == WrShared(st, b, RdShared(st, b, j) - 1) IN
         IF s1.blk[b].shared_count_ = 0
         THEN LET s2 == [DeleteVal(s1, s1.sp[s].ptr_) EXCEPT !.sp[s].ptr_ = Null] IN
              [DeleteBlock(s2, b, "SharedPtr") EXCEPT !.sp[s].block_ = Null]
         ELSE s1
    ELSE st

\* void SharedPtr::Release()
SharedRelease(st, s, j) ==
    LET b == st.sp[s].block_ IN
    IF b # Null
    THEN LET s1 == WrShared(st, b, RdShared(st, b, j) - 1) IN
         IF s1.blk[b].shared_count_ = 0
         THEN LET s2 == [DeleteVal(s1, s1.sp[s].ptr_) EXCEPT !.sp[s].ptr_ = Null] IN
              IF RdWeak(s2, b, j) = 0
              THEN [DeleteBlock(s2, b, "SharedPtr") EXCEPT !.sp[s].block_ = Null]
              ELSE s2
         ELSE s1
    ELSE st

\* the constructor without `++block_->shared_count_`
SharedFromRaw_NoIncrement(st, s, p, nb) ==
    LET s1 == [st EXCEPT !.sp[s] = [live |-> TRUE, ptr_ |-> p, block_ |-> Null]] IN
    IF p # Null
    THEN [AllocBlock(s1, nb, p) EXCEPT !.sp[s].block_ = nb]
    ELSE s1

\* explicit SharedPtr(std::string* ptr), constructing object s
SharedFromRaw(st, s, p, nb) ==
    LET s1 == [st EXCEPT !.sp[s] = [live |-> TRUE, ptr_ |-> p, block_ |-> Null]] IN
    IF p # Null
    THEN LET s2 == [AllocBlock(s1, nb, p) EXCEPT !.sp[s].block_ = nb] IN
         WrShared(s2, nb, s2.blk[nb].shared_count_ + 1)
    ELSE s1

\* copy construction without `++block_->shared_count_`
SharedCopyCtor_NoIncrement(st, s, o, j) ==
    [st EXCEPT !.sp[s] = [live |-> TRUE, ptr_ |-> st.sp[o].ptr_,
                          block_ |-> st.sp[o].block_]]

\* SharedPtr(const SharedPtr& other)
SharedCopyCtor(st, s, o, j) ==
    LET s1 == [st EXCEPT !.sp[s] = [live |-> TRUE, ptr_ |-> st.sp[o].ptr_,
                                    block_ |-> st.sp[o].block_]]
        b == s1.sp[s].block_ IN
    IF b # Null THEN WrShared(s1, b, RdShared(s1, b, j) + 1) ELSE s1

\* SharedPtr(SharedPtr&& other)
SharedMoveCtor(st, s, o) ==
    [st EXCEPT !.sp[s] = [live |-> TRUE, ptr_ |-> st.sp[o].ptr_,
                          block_ |-> st.sp[o].block_],
               !.sp[o].block_ = Null,
               !.sp[o].ptr_ = Null]

\* the upgrade without `++block_->shared_count_`
SharedFromWeak_NoIncrement(st, s, w, j) ==
    LET b == st.wp[w].block_ IN
    IF b # Null /\ RdShared(st, b, j) # 0
    THEN [st EXCEPT !.sp[s] = [live |-> TRUE, ptr_ |-> st.wp[w].ptr_, block_ |-> b]]
    ELSE [st EXCEPT !.sp[s] = [live |-> TRUE, ptr_ |-> Null, block_ |-> Null]]

\* the upgrade without the test `shared_count_ > 0`
SharedFromWeak_NoExpiryTest(st, s, w, j) ==
    LET b == st.wp[w].block_ IN
    IF b # Null
    THEN LET s1 == [st EXCEPT !.sp[s] = [live |-> TRUE, ptr_ |-> st.wp[w].ptr_,
                                         block_ |-> b]] IN
         WrShared(s1, b, RdShared(s1, b, j) + 1)
    ELSE [st EXCEPT !.sp[s] = [live |-> TRUE, ptr_ |-> Null, block_ |-> Null]]

\* SharedPtr::SharedPtr(const WeakPtr& ptr)
SharedFromWeak(st, s, w, j) ==
    LET b == st.wp[w].block_ IN
    IF b # Null /\ RdShared(st, b, j) # 0
    THEN LET s1 == [st EXCEPT !.sp[s] = [live |-> TRUE, ptr_ |-> st.wp[w].ptr_,
                                         block_ |-> b]] IN
         WrShared(s1, b, RdShared(s1, b, j) + 1)
    ELSE [st EXCEPT !.sp[s] = [live |-> TRUE, ptr_ |-> Null, block_ |-> Null]]

\* copy assignment without `++block_->shared_count_`
SharedCopyAssign_NoIncrement(st, s, o, j) ==
    IF s # o
    THEN LET s1 == SharedRelease(st, s, j) IN
         [s1 EXCEPT !.sp[s].ptr_ = s1.sp[o].ptr_,
                    !.sp[s].block_ = s1.sp[o].block_]
    ELSE st

\* SharedPtr& operator=(const SharedPtr& other)
SharedCopyAssign(st, s, o, j) ==
    IF s # o
    THEN LET s1 == SharedRelease(st, s, j)
             s2 == [s1 EXCEPT !.sp[s].ptr_ = s1.sp[o].ptr_,
                              !.sp[s].block_ = s1.sp[o].block_]
             b == s2.sp[s].block_ IN
         IF b # Null THEN WrShared(s2, b, RdShared(s2, b, j) + 1) ELSE s2
    ELSE st

\* move assignment without the test `this != &other`
SharedMoveAssign_NoSelfTest(st, s, o, j) ==
    LET s1 == SharedRelease(st, s, j)
        s2 == [s1 EXCEPT !.sp[s].ptr_ = s1.sp[o].ptr_,
                         !.sp[s].block_ = s1.sp[o].block_] IN
    [s2 EXCEPT !.sp[o].block_ = Null, !.sp[o].ptr_ = Null]

\* SharedPtr& operator=(SharedPtr&& other)
SharedMoveAssign(st, s, o, j) ==
    IF s # o
    THEN LET s1 == SharedRelease(st, s, j)
             s2 == [s1 EXCEPT !.sp[s].ptr_ = s1.sp[o].ptr_,
                              !.sp[s].block_ = s1.sp[o].block_] IN
         [s2 EXCEPT !.sp[o].block_ = Null, !.sp[o].ptr_ = Null]
    ELSE st

\* ~SharedPtr(): Release(), then the object is gone
SharedDtor(st, s, j) ==
    [SharedRelease(st, s, j) EXCEPT !.sp[s] = NoShared]

\* Reset() without the else branch that clears ptr_ and block_
SharedReset_NoClear(st, s, p, nb, j) ==
    LET s1 == SharedRelease(st, s, j) IN
    IF p # Null
    THEN LET s2 == [s1 EXCEPT !.sp[s].ptr_ = p]
             s3 == [AllocBlock(s2, nb, p) EXCEPT !.sp[s].block_ = nb] IN
         WrShared(s3, nb, 1)
    ELSE s1

\* Reset() without the call of Release()
SharedReset_NoRelease(st, s, p, nb, j) ==
    IF p # Null
    THEN LET s2 == [st EXCEPT !.sp[s].ptr_ = p]
             s3 == [AllocBlock(s2, nb, p) EXCEPT !.sp[s].block_ = nb] IN
         WrShared(s3, nb, 1)
    ELSE [st EXCEPT !.sp[s].ptr_ = Null, !.sp[s].block_ = Null]

\* void Reset(std::string* new_ptr = nullptr)
SharedReset(st, s, p, nb, j) ==
    LET s1 == SharedRelease(st, s, j) IN
    IF p # Null
    THEN LET s2 == [s1 EXCEPT !.sp[s].ptr_ = p]
             s3 == [AllocBlock(s2, nb, p) EXCEPT !.sp[s].block_ = nb] IN
         WrShared(s3, nb, 1)
    ELSE [s1 EXCEPT !.sp[s].ptr_ = Null, !.sp[s].block_ = Null]

\* std::string* Get() const
Get(st, s) == st.sp[s].ptr_

\* ---- WeakPtr ------------------------------------------------------------
\* Release() that deletes the block as soon as weak_count_ is 0
WeakRelease_NoJointTest(st, w, j) ==
    LET b == st.wp[w].block_
        s3 == IF b # Null
              THEN LET s1 == WrWeak(st, b, RdWeak(st, b, j) - 1)
                       s2 == IF s1.blk[b].weak_count_ = 0
                             THEN DeleteBlock(s1, b, "WeakPtr")
                             ELSE s1 IN
                   [s2 EXCEPT !.wp[w].block_ = Null]
              ELSE st IN
    [s3 EXCEPT !.wp[w].ptr_ = Null]

\* Release() that also deletes ptr_ when it deletes the block
WeakRelease_DeletesValue(st, w, j) ==
    LET b == st.wp[w].block_
        s3 == IF b # Null
              THEN LET s1 == WrWeak(st, b, RdWeak(st, b, j) - 1)
                       s2 == IF s1.blk[b].weak_count_ = 0 /\ RdShared(s1, b, j) = 0
                             THEN DeleteVal(DeleteBlock(s1, b, "WeakPtr"), s1.wp[w].ptr_)
                             ELSE s1 IN
                   [s2 EXCEPT !.wp[w].block_ = Null]
              ELSE st IN
    [s3 EXCEPT !.wp[w].ptr_ = Null]

\* void WeakPtr::Release()
WeakRelease(st, w, j) ==
    LET b == st.wp[w].block_
        s3 == IF b # Null
              THEN LET s1 == WrWeak(st, b, RdWeak(st, b, j) - 1)
                       s2 == IF s1.blk[b].weak_count_ = 0 /\ RdShared(s1, b, j) = 0
                             THEN DeleteBlock(s1, b, "WeakPtr")
                             ELSE s1 IN
                   [s2 EXCEPT !.wp[w].block_ = Null]
              ELSE st IN
    [s3 EXCEPT !.wp[w].ptr_ = Null]

\* explicit WeakPtr(std::string* ptr): block_ keeps its initialiser nullptr
WeakFromRaw(st, w, p) ==
    LET s1 == [st EXCEPT !.wp[w] = [live |-> TRUE, block_ |-> Null, ptr_ |-> p]]
        b == s1.wp[w].block_ IN
    IF b # Null THEN WrWeak(s1, b, 1) ELSE s1

\* copy construction without `++block_->weak_count_`
WeakCopyCtor_NoIncrement(st, w, o, j) ==
    [st EXCEPT !.wp[w] = [live |-> TRUE, block_ |-> st.wp[o].block_,
                          ptr_ |-> st.wp[o].ptr_]]

\* WeakPtr(const WeakPtr& other)
WeakCopyCtor(st, w, o, j) ==
    LET s1 == [st EXCEPT !.wp[w] = [live |-> TRUE, block_ |-> st.wp[o].block_,
                                    ptr_ |-> st.wp[o].ptr_]]
        b == s1.wp[w].block_ IN
    IF b # Null THEN WrWeak(s1, b, RdWeak(s1, b, j) + 1) ELSE s1

\* move construction that leaves the source attached
WeakMoveCtor_KeepsSource(st, w, o) ==
    [st EXCEPT !.wp[w] = [live |-> TRUE, block_ |-> st.wp[o].block_,
                          ptr_ |-> st.wp[o].ptr_]]

\* WeakPtr(WeakPtr&& other)
WeakMoveCtor(st, w, o) ==
    [st EXCEPT !.wp[w] = [live |-> TRUE, block_ |-> st.wp[o].block_,
                          ptr_ |-> st.wp[o].ptr_],
               !.wp[o].block_ = Null,
               !.wp[o].ptr_ = Null]

\* explicit WeakPtr(const SharedPtr& shared)
WeakFromShared(st, w, s, j) ==
    LET s1 == [st EXCEPT !.wp[w] = [live |-> TRUE, block_ |-> st.sp[s].block_,
                                    ptr_ |-> st.sp[s].ptr_]]
        b == s1.wp[w].block_ IN
    IF b # Null THEN WrWeak(s1, b, RdWeak(s1, b, j) + 1) ELSE s1

\* ~WeakPtr(): Release(), then the object is gone
WeakDtor(st, w, j) ==
    [WeakRelease(st, w, j) EXCEPT !.wp[w] = NoWeak]

\* copy assignment without `++block_->weak_count_`
WeakCopyAssign_NoIncrement(st, w, o, j) ==
    IF w # o
    THEN LET s1 == WeakRelease(st, w, j) IN
         [s1 EXCEPT !.wp[w].ptr_ = s1.wp[o].ptr_,
                    !.wp[w].block_ = s1.wp[o].block_]
    ELSE st

\* WeakPtr& operator=(const WeakPtr& other)
WeakCopyAssign(st, w, o, j) ==
    IF w # o
    THEN LET s1 == WeakRelease(st, w, j)
             s2 == [s1 EXCEPT !.wp[w].ptr_ = s1.wp[o].ptr_,
                              !.wp[w].block_ = s1.wp[o].block_]
             b == s2.wp[w].block_ IN
         IF b # Null THEN WrWeak(s2, b, RdWeak(s2, b, j) + 1) ELSE s2
    ELSE st

\* move assignment that leaves the source attached
WeakMoveAssign_KeepsSource(st, w, o, j) ==
    IF w # o
    THEN LET s1 == WeakRelease(st, w, j) IN
         [s1 EXCEPT !.wp[w].ptr_ = s1.wp[o].ptr_,
                    !.wp[w].block_ = s1.wp[o].block_]
    ELSE st

\* WeakPtr& operator=(WeakPtr&& other)
WeakMoveAssign(st, w, o, j) ==
    IF w # o
    THEN LET s1 == WeakRelease(st, w, j)
             s2 == [s1 EXCEPT !.wp[w].ptr_ = s1.wp[o].ptr_,
                              !.wp[w].block_ = s1.wp[o].block_] IN
         [s2 EXCEPT !.wp[o].ptr_ = Null, !.wp[o].block_ = Null]
    ELSE st

\* SharedPtr WeakPtr::Lock() const, the returned object being d
WeakLock(st, w, d, j) ==
    LET b == st.wp[w].block_ IN
    IF b # Null /\ RdShared(st, b, j) # 0
    THEN SharedFromWeak(st, d, w, j)
    ELSE [st EXCEPT !.sp[d] = DefaultShared]

\* IsExpired() that tests only `block_ == nullptr`
IsExpired_NullOnly(st, w, j) ==
    st.wp[w].block_ = Null

\* IsExpired() that reports an observer without a block as not expired
IsExpired_NullNotExpired(st, w, j) ==
    IF st.wp[w].block_ = Null THEN FALSE
    ELSE RdShared(st, st.wp[w].block_, j) = 0

\* bool WeakPtr::IsExpired() const
IsExpired(st, w, j) ==
    st.wp[w].block_ = Null \/ RdShared(st, st.wp[w].block_, j) = 0

\* ---- initial state ------------------------------------------------------
\* a thread that is between two operations
IdleThread == [pc |-> "idle", obj |-> Null, src |-> Null, reg |-> 0]

Init ==
    /\ sp = [s \in SIds |-> NoShared]
    /\ wp = [w \in WIds |-> NoWeak]
    /\ blk = [b \in Blocks |-> FreeBlock]
    /\ val = [v \in AllVals |-> IF v = Ext THEN "alive" ELSE "unalloc"]
    /\ hist = [valDeletes |-> [v \in AllVals |-> 0],
               blkDeletes |-> [b \in Blocks |-> 0],
               freedBy |-> [b \in Blocks |-> "none"],
               managed |-> [b \in Blocks |-> Null],
               uaf |-> FALSE,
               raced |-> FALSE]
    /\ ret = FALSE
    /\ thr = [t \in Threads |-> IdleThread]

\* ---- reads of deleted memory --------------------------------------------
\* some object of the calling code holds the address of a deleted ControlBlock
Dangling ==
    \/ \E s \in SIds : /\ sp[s].live /\ sp[s].block_ # Null
                       /\ blk[sp[s].block_].state # "live"
    \/ \E w \in WIds : /\ wp[w].live /\ wp[w].block_ # Null
                       /\ blk[wp[w].block_].state # "live"

Deletes(st) ==
    \E b \in Blocks : st.blk[b].state = "deleted" /\ blk[b].state # "deleted"

\* The states an operation F can end in.  What a read of a deleted block
\* yields is not determined; it can only matter when an object already
\* dangles or when the operation itself deletes a block.
Outcomes(F(_)) ==
    IF Dangling \/ Deletes(F(0)) THEN {F(j) : j \in Junk} ELSE {F(0)}

\* ---- operations of the calling code on SharedPtr objects ----------------
OpSharedDefault(s) ==
    /\ ~sp[s].live
    /\ Set([Cur EXCEPT !.sp[s] = DefaultShared])
    /\ UNCHANGED <<ret, thr>>

OpSharedFromNull(s) ==
    /\ ~sp[s].live
    /\ Set(SharedFromRaw(Cur, s, Null, Null))
    /\ UNCHANGED <<ret, thr>>

\* SharedPtr s(new std::string): the caller hands over a string nobody else
\* owns (the constructor's precondition), so the address is a fresh one
OpSharedFromRaw(s) ==
    /\ ~sp[s].live
    /\ HasFreeBlock(Cur) /\ HasFreeVal(Cur)
    /\ LET v == NewValAddr(Cur)
           st0 == AllocVal(Cur, v) IN
       /\ Set(SharedFromRaw(st0, s, v, NewBlockAddr(st0)))
       /\ UNCHANGED <<ret, thr>>

OpSharedCopyCtor(s, o) ==
    /\ ~sp[s].live /\ sp[o].live
    /\ \E r \in Outcomes(LAMBDA j : SharedCopyCtor(Cur, s, o, j)) : Set(r)
    /\ UNCHANGED <<ret, thr>>

OpSharedMoveCtor(s, o) ==
    /\ ~sp[s].live /\ sp[o].live
    /\ Set(SharedMoveCtor(Cur, s, o))
    /\ UNCHANGED <<ret, thr>>

OpSharedFromWeak(s, w) ==
    /\ ~sp[s].live /\ wp[w].live
    /\ \E r \in Outcomes(LAMBDA j : SharedFromWeak(Cur, s, w, j)) : Set(r)
    /\ UNCHANGED <<ret, thr>>

OpSharedCopyAssign(s, o) ==
    /\ sp[s].live /\ sp[o].live
    /\ \E r \in Outcomes(LAMBDA j : SharedCopyAssign(Cur, s, o, j)) : Set(r)
    /\ UNCHANGED <<ret, thr>>

OpSharedMoveAssign(s, o) ==
    /\ sp[s].live /\ sp[o].live
    /\ \E r \in Outcomes(LAMBDA j : SharedMoveAssign(Cur, s, o, j)) : Set(r)
    /\ UNCHANGED <<ret, thr>>

OpSharedDtor(s) ==
    /\ sp[s].live
    /\ \E r \in Outcomes(LAMBDA j : SharedDtor(Cur, s, j)) : Set(r)
    /\ UNCHANGED <<ret, thr>>

OpSharedResetNull(s) ==
    /\ sp[s].live
    /\ \E r \in Outcomes(LAMBDA j : SharedReset(Cur, s, Null, Null, j)) : Set(r)
    /\ UNCHANGED <<ret, thr>>

\* s.Reset(new std::string)
OpSharedReset(s) ==
    /\ sp[s].live
    /\ HasFreeBlock(Cur) /\ HasFreeVal(Cur)
    /\ LET v == NewValAddr(Cur)
           st0 == AllocVal(Cur, v) IN
       /\ \E r \in Outcomes(LAMBDA j : SharedReset(st0, s, v, NewBlockAddr(st0), j)) : Set(r)
       /\ UNCHANGED <<ret, thr>>

\* ---- operations of the calling code on WeakPtr objects ------------------
OpWeakDefault(w) ==
    /\ ~wp[w].live
    /\ Set([Cur EXCEPT !.wp[w] = DefaultWeak])
    /\ UNCHANGED <<ret, thr>>

\* WeakPtr w(p) for nullptr or the address of the caller's own string
OpWeakFromRaw(w, p) ==
    /\ ~wp[w].live
    /\ Set(WeakFromRaw(Cur, w, p))
    /\ UNCHANGED <<ret, thr>>

OpWeakCopyCtor(w, o) ==
    /\ ~wp[w].live /\ wp[o].live
    /\ \E r \in Outcomes(LAMBDA j : WeakCopyCtor(Cur, w, o, j)) : Set(r)
    /\ UNCHANGED <<ret, thr>>

OpWeakMoveCtor(w, o) ==
    /\ ~wp[w].live /\ wp[o].live
    /\ Set(WeakMoveCtor(Cur, w, o))
    /\ UNCHANGED <<ret, thr>>

OpWeakFromShared(w, s) ==
    /\ ~wp[w].live /\ sp[s].live
    /\ \E r \in Outcomes(LAMBDA j : WeakFromShared(Cur, w, s, j)) : Set(r)
    /\ UNCHANGED <<ret, thr>>

OpWeakDtor(w) ==
    /\ wp[w].live
    /\ \E r \in Outcomes(LAMBDA j : WeakDtor(Cur, w, j)) : Set(r)
    /\ UNCHANGED <<ret, thr>>

OpWeakCopyAssign(w, o) ==
    /\ wp[w].live /\ wp[o].live
    /\ \E r \in Outcomes(LAMBDA j : WeakCopyAssign(Cur, w, o, j)) : Set(r)
    /\ UNCHANGED <<ret, thr>>

OpWeakMoveAssign(w, o) ==
    /\ wp[w].live /\ wp[o].live
    /\ \E r \in Outcomes(LAMBDA j : WeakMoveAssign(Cur, w, o, j)) : Set(r)
    /\ UNCHANGED <<ret, thr>>

\* SharedPtr d = w.Lock()
OpWeakLock(w, d) ==
    /\ wp[w].live /\ ~sp[d].live
    /\ \E r \in Outcomes(LAMBDA j : WeakLock(Cur, w, d, j)) : Set(r)
    /\ UNCHANGED <<ret, thr>>

\* bool r = w.IsExpired()
OpIsExpired(w) ==
    /\ wp[w].live
    /\ \E j \in (IF Dangling THEN Junk ELSE {0}) : ret' = IsExpired(Cur, w, j)
    /\ UNCHANGED <<sp, wp, blk, val, hist, thr>>

Next ==
    \/ \E s \in SIds : OpSharedDefault(s)
    \/ \E s \in SIds : OpSharedFromNull(s)
    \/ \E s \in SIds : OpSharedFromRaw(s)
    \/ \E s, o \in SIds : OpSharedCopyCtor(s, o)
    \/ \E s, o \in SIds : OpSharedMoveCtor(s, o)
    \/ \E s \in SIds, w \in WIds : OpSharedFromWeak(s, w)
    \/ \E s, o \in SIds : OpSharedCopyAssign(s, o)
    \/ \E s, o \in SIds : OpSharedMoveAssign(s, o)
    \/ \E s \in SIds : OpSharedDtor(s)
    \/ \E s \in SIds : OpSharedResetNull(s)
    \/ \E s \in SIds : OpSharedReset(s)
    \/ \E w \in WIds : OpWeakDefault(w)
    \/ \E w \in WIds, p \in {Null, Ext} : OpWeakFromRaw(w, p)
    \/ \E w, o \in WIds : OpWeakCopyCtor(w, o)
    \/ \E w, o \in WIds : OpWeakMoveCtor(w, o)
    \/ \E w \in WIds, s \in SIds : OpWeakFromShared(w, s)
    \/ \E w \in WIds : OpWeakDtor(w)
    \/ \E w, o \in WIds : OpWeakCopyAssign(w, o)
    \/ \E w, o \in WIds : OpWeakMoveAssign(w, o)
    \/ \E w \in WIds, d \in SIds : OpWeakLock(w, d)
    \/ \E w \in WIds : OpIsExpired(w)

Spec == Init /\ [][Next]_vars

\* ---- properties ---------------------------------------------------------
\* the live SharedPtr objects attached to block b, in handle state spx
OwnersIn(spx, b) == {s \in SIds : spx[s].live /\ spx[s].block_ = b}
\* the live WeakPtr objects attached to block b, in handle state wpx
ObserversIn(wpx, b) == {w \in WIds : wpx[w].live /\ wpx[w].block_ = b}
HandlesIn(spx, wpx, b) ==
    Cardinality(OwnersIn(spx, b)) + Cardinality(ObserversIn(wpx, b))

\* C1: a value handed to a SharedPtr is destroyed at most once, and in exactly
\* the step in which the last SharedPtr attached to its control block goes
\* away (destroyed, reset or overwritten), which is the step that takes the
\* block's shared_count_ from 1 to 0.
C1_ValueDestroyedOnceByLastOwner ==
    [][\A b \in Blocks :
         LET v == hist'.managed[b]
             destroyedNow == hist'.valDeletes[v] # hist.valDeletes[v] IN
         v # Null =>
            /\ hist'.valDeletes[v] <= 1
            /\ (val'[v] = "destroyed") <=> (hist'.valDeletes[v] = 1)
            /\ destroyedNow <=> /\ Cardinality(OwnersIn(sp, b)) >= 1
                                /\ Cardinality(OwnersIn(sp', b)) = 0
            /\ destroyedNow <=> /\ blk[b].state = "live"
                                /\ blk[b].shared_count_ = 1
                                /\ blk'[b].shared_count_ = 0]_vars

\* a value was destroyed once, by its last owner, while another value is
\* still owned
C1_Witness ==
    \E b, c \in Blocks :
        /\ hist.managed[b] # Null
        /\ val[hist.managed[b]] = "destroyed"
        /\ hist.valDeletes[hist.managed[b]] = 1
        /\ OwnersIn(sp, b) = {}
        /\ blk[c].state = "live" /\ OwnersIn(sp, c) # {}
        /\ val[hist.managed[c]] = "alive"

\* C2: a control block is destroyed at most once, and in exactly the step in
\* which the last handle attached to it (SharedPtr or WeakPtr) is released,
\* with both counters zero, whichever kind of handle goes last.
C2_BlockDestroyedOnceByLastHandle ==
    [][\A b \in Blocks :
         LET deletedNow == hist'.blkDeletes[b] # hist.blkDeletes[b] IN
         /\ hist'.blkDeletes[b] <= 1
         /\ (blk'[b].state = "deleted") <=> (hist'.blkDeletes[b] = 1)
         /\ deletedNow <=> /\ HandlesIn(sp, wp, b) >= 1
                           /\ HandlesIn(sp', wp', b) = 0
         /\ deletedNow => /\ blk'[b].shared_count_ = 0
                          /\ blk'[b].weak_count_ = 0]_vars

\* one block was deleted by its last owner, another by its last observer
C2_Witness ==
    \E b, c \in Blocks :
        /\ hist.freedBy[b] = "SharedPtr" /\ hist.blkDeletes[b] = 1
        /\ hist.freedBy[c] = "WeakPtr" /\ hist.blkDeletes[c] = 1

\* C3: for every control block that exists, the owned value is alive iff the
\* block's shared_count_ is greater than zero.
C3_ValueAliveIffStrongPositive ==
    \A b \in Blocks :
        blk[b].state = "live" =>
            ((val[hist.managed[b]] = "alive") <=> (blk[b].shared_count_ > 0))

\* a block that outlives its value, next to a block whose value is owned
C3_Witness ==
    \E b, c \in Blocks :
        /\ blk[b].state = "live" /\ blk[b].shared_count_ = 0
        /\ val[hist.managed[b]] = "destroyed"
        /\ blk[c].state = "live" /\ blk[c].shared_count_ > 0
        /\ val[hist.managed[c]] = "alive"

\* C4: shared_count_ of every control block that exists is the number of live
\* SharedPtr objects whose block_ is that block.
C4_StrongCountIsOwners ==
    \A b \in Blocks :
        blk[b].state = "live" =>
            blk[b].shared_count_ = Cardinality(OwnersIn(sp, b))

\* two owners counted on one block
C4_Witness ==
    \E b \in Blocks :
        /\ blk[b].state = "live" /\ blk[b].shared_count_ = 2
        /\ Cardinality(OwnersIn(sp, b)) = 2

\* C5: weak_count_ of every control block that exists is the number of live
\* WeakPtr objects whose block_ is that block, whether or not the value lives.
C5_WeakCountIsObservers ==
    \A b \in Blocks :
        blk[b].state = "live" =>
            blk[b].weak_count_ = Cardinality(ObserversIn(wp, b))

\* two observers counted on a block whose value is gone
C5_Witness ==
    \E b \in Blocks :
        /\ blk[b].state = "live" /\ blk[b].weak_count_ = 2
        /\ blk[b].shared_count_ = 0
        /\ val[hist.managed[b]] = "destroyed"

\* C6: a live SharedPtr with a control block has shared_count_ >= 1 there and
\* a non-null ptr_ to a value that is not destroyed; one without a control
\* block has a null ptr_.
C6_OwnerInvariant ==
    \A s \in SIds :
        sp[s].live =>
            IF sp[s].block_ # Null
            THEN /\ blk[sp[s].block_].state = "live"
                 /\ blk[sp[s].block_].shared_count_ >= 1
                 /\ sp[s].ptr_ # Null
                 /\ val[sp[s].ptr_] = "alive"
            ELSE sp[s].ptr_ = Null

\* an attached owner next to an emptied one whose old block is still observed
C6_Witness ==
    \E s, t \in SIds, b \in Blocks :
        /\ sp[s].live /\ sp[s].block_ # Null /\ sp[s].block_ # b
        /\ sp[t].live /\ sp[t].block_ = Null
        /\ blk[b].state = "live" /\ blk[b].shared_count_ = 0

\* the observer w is empty, or its block has no owner left
Expired(w) ==
    IF wp[w].block_ = Null THEN TRUE ELSE blk[wp[w].block_].shared_count_ = 0

\* C7: Lock() on an observer whose block has shared_count_ > 0 returns a
\* SharedPtr with the observer's ptr_ and block_, which is the value the block
\* was created for; shared_count_ grows by one and weak_count_ stays.
C7_LockAliveAttaches ==
    [][\A w \in WIds, d \in SIds :
         (OpWeakLock(w, d) /\ ~Expired(w)) =>
            LET b == wp[w].block_ IN
            /\ sp'[d] = [live |-> TRUE, ptr_ |-> wp[w].ptr_, block_ |-> b]
            /\ sp'[d].ptr_ = hist.managed[b]
            /\ \A s \in OwnersIn(sp, b) : sp'[s] = sp[s] /\ sp[s].ptr_ = sp'[d].ptr_
            /\ blk'[b].shared_count_ = blk[b].shared_count_ + 1
            /\ blk'[b].weak_count_ = blk[b].weak_count_
            /\ blk'[b].state = "live"
            /\ UNCHANGED <<wp, val>>]_vars

\* an observer and two owners on one block, as after a successful Lock()
C7_Witness ==
    \E w \in WIds, b \in Blocks :
        /\ wp[w].live /\ wp[w].block_ = b
        /\ blk[b].state = "live"
        /\ blk[b].shared_count_ = 2 /\ blk[b].weak_count_ = 1
        /\ \A s \in SIds : sp[s] = [live |-> TRUE, ptr_ |-> wp[w].ptr_, block_ |-> b]

\* C8: Lock() and the upgrade constructor on an observer that is empty or
\* whose block has shared_count_ = 0 yield an empty SharedPtr and change
\* nothing else; destroying that empty SharedPtr changes nothing either.
C8_LockExpiredIsEmpty ==
    [][/\ \A w \in WIds, d \in SIds :
            ((OpWeakLock(w, d) \/ OpSharedFromWeak(d, w)) /\ Expired(w)) =>
               /\ sp' = [sp EXCEPT ![d] = DefaultShared]
               /\ UNCHANGED <<wp, blk, val, hist>>
       /\ \A d \in SIds :
            (OpSharedDtor(d) /\ sp[d] = DefaultShared) =>
               /\ sp' = [sp EXCEPT ![d] = NoShared]
               /\ UNCHANGED <<wp, blk, val, hist>>]_vars

\* an empty SharedPtr next to an observer of a block whose value is gone
C8_Witness ==
    \E w \in WIds, d \in SIds :
        /\ wp[w].live /\ wp[w].block_ # Null
        /\ blk[wp[w].block_].state = "live"
        /\ blk[wp[w].block_].shared_count_ = 0
        /\ sp[d] = DefaultShared

\* C9: IsExpired() is false while a live SharedPtr shares the observer's
\* block and true otherwise (no block, or no owner left: shared_count_ = 0),
\* and calling it changes nothing.
C9_IsExpiredIffNoOwner ==
    [][/\ \A w \in WIds :
            wp[w].live =>
               /\ IsExpired(Cur, w, 0) = Expired(w)
               /\ IsExpired(Cur, w, 0) =
                     (wp[w].block_ = Null \/ OwnersIn(sp, wp[w].block_) = {})
       /\ \A w \in WIds :
            OpIsExpired(w) =>
               /\ ret' = (wp[w].block_ = Null \/ OwnersIn(sp, wp[w].block_) = {})
               /\ UNCHANGED <<sp, wp, blk, val, hist>>]_vars

\* IsExpired() has answered true while an observer is attached to a block
\* without owners and another observer is attached to an owned block
C9_Witness ==
    /\ ret = TRUE
    /\ \E w, x \in WIds :
        /\ wp[w].live /\ wp[w].block_ # Null
        /\ OwnersIn(sp, wp[w].block_) = {}
        /\ wp[x].live /\ wp[x].block_ # Null
        /\ OwnersIn(sp, wp[x].block_) # {}

\* C10: assigning a SharedPtr or a WeakPtr to itself, by copy or by move,
\* changes neither the handle nor any counter and destroys nothing.
C10_SelfAssignmentNoOp ==
    [][/\ \A s \in SIds :
            (OpSharedCopyAssign(s, s) \/ OpSharedMoveAssign(s, s)) =>
               UNCHANGED <<sp, wp, blk, val, hist>>
       /\ \A w \in WIds :
            (OpWeakCopyAssign(w, w) \/ OpWeakMoveAssign(w, w)) =>
               UNCHANGED <<sp, wp, blk, val, hist>>]_vars

\* a SharedPtr that is the only handle of its block, and a WeakPtr that is the
\* only observer of a block whose value is gone: self-assignment is enabled on both
C10_Witness ==
    \E s \in SIds, w \in WIds :
        /\ sp[s].live /\ sp[s].block_ # Null
        /\ HandlesIn(sp, wp, sp[s].block_) = 1
        /\ wp[w].live /\ wp[w].block_ # Null
        /\ HandlesIn(sp, wp, wp[w].block_) = 1

\* C11: when the last SharedPtr of a block goes while a WeakPtr is attached,
\* the value is destroyed in that step and the block stays with
\* shared_count_ = 0; from then on every attached observer is expired and
\* locks to an empty SharedPtr, and the block exists until the step that
\* releases its last WeakPtr, which deletes it.
C11_BlockOutlivesValueUntilLastObserver ==
    [][\A b \in Blocks :
         /\ (/\ OwnersIn(sp, b) # {}
             /\ OwnersIn(sp', b) = {}
             /\ ObserversIn(wp', b) # {}) =>
                /\ val[hist.managed[b]] = "alive"
                /\ val'[hist.managed[b]] = "destroyed"
                /\ blk'[b].state = "live"
                /\ blk'[b].shared_count_ = 0
         /\ (blk[b].state = "live" /\ blk[b].shared_count_ = 0) =>
                /\ ObserversIn(wp, b) # {}
                /\ \A w \in ObserversIn(wp, b) :
                      /\ IsExpired(Cur, w, 0)
                      /\ \A d \in SIds : WeakLock(Cur, w, d, 0).sp[d] = DefaultShared
                /\ IF ObserversIn(wp', b) # {}
                   THEN /\ blk'[b].state = "live"
                        /\ blk'[b].shared_count_ = 0
                        /\ val'[hist.managed[b]] = "destroyed"
                   ELSE /\ blk'[b].state = "deleted"
                        /\ hist'.freedBy[b] = "WeakPtr"
                        /\ hist'.blkDeletes[b] = 1]_vars

\* one block went through the whole course and was deleted by its last
\* observer; another has lost its value and is kept by an observer
C11_Witness ==
    \E b, c \in Blocks :
        /\ hist.freedBy[b] = "WeakPtr"
        /\ val[hist.managed[b]] = "destroyed"
        /\ blk[c].state = "live" /\ blk[c].shared_count_ = 0
        /\ val[hist.managed[c]] = "destroyed"
        /\ ObserversIn(wp, c) # {}

\* The release rule as an effect of one step on block c, whose owner count
\* drops by one: the value goes iff that owner was the last, the block goes
\* iff in addition no observer is attached.
ReleasedOwner(c) ==
    /\ blk'[c].shared_count_ = blk[c].shared_count_ - 1
    /\ blk'[c].weak_count_ = blk[c].weak_count_
    /\ val'[hist.managed[c]] =
          (IF blk[c].shared_count_ = 1 THEN "destroyed" ELSE val[hist.managed[c]])
    /\ blk'[c].state =
          (IF blk[c].shared_count_ = 1 /\ blk[c].weak_count_ = 0
           THEN "deleted" ELSE "live")

\* every block other than those in X, and its value, are as before the step
OthersUntouched(X) ==
    /\ \A x \in Blocks \ X : blk'[x] = blk[x]
    /\ \A v \in AllVals : (\A x \in X : hist.managed[x] # v) => val'[v] = val[v]

\* C12: copy construction from a non-empty SharedPtr gives a handle with the
\* same ptr_ and block_ and raises that block's shared_count_ by one; copy
\* assignment does the same after releasing what the target owned (so the
\* counters end as before when both were on one block); from an empty source
\* the result is empty and no counter is raised.
C12_CopyShares ==
    [][/\ \A s, o \in SIds :
            OpSharedCopyCtor(s, o) =>
               LET b == sp[o].block_ IN
               /\ sp' = [sp EXCEPT ![s] = [live |-> TRUE, ptr_ |-> sp[o].ptr_,
                                           block_ |-> b]]
               /\ IF b # Null
                  THEN blk' = [blk EXCEPT ![b].shared_count_ = @ + 1]
                  ELSE blk' = blk /\ sp'[s] = DefaultShared
               /\ UNCHANGED <<wp, val, hist>>
       /\ \A s, o \in SIds :
            (OpSharedCopyAssign(s, o) /\ s # o) =>
               LET b == sp[o].block_
                   c == sp[s].block_ IN
               /\ sp' = [sp EXCEPT ![s] = [live |-> TRUE, ptr_ |-> sp[o].ptr_,
                                           block_ |-> b]]
               /\ wp' = wp
               /\ OthersUntouched({b, c} \ {Null})
               /\ IF b = c
                  THEN blk' = blk /\ val' = val
                  ELSE /\ c # Null => ReleasedOwner(c)
                       /\ b # Null =>
                             /\ blk'[b] = [blk[b] EXCEPT !.shared_count_ = @ + 1]
                             /\ val'[hist.managed[b]] = val[hist.managed[b]]
               /\ b = Null => sp'[s] = DefaultShared]_vars

\* two owners on one block after a copy, and a block that an overwritten or
\* destroyed last owner has deleted
C12_Witness ==
    \E b, c \in Blocks :
        /\ blk[b].state = "live" /\ blk[b].shared_count_ = 2
        /\ \A s \in SIds : sp[s].live /\ sp[s].block_ = b
                           /\ sp[s].ptr_ = hist.managed[b]
        /\ hist.freedBy[c] = "SharedPtr"

\* what a move does to the handles: the target takes the source's ptr_ and
\* block_, the source is left empty
SharedMoved(s, o) ==
    sp' = [sp EXCEPT ![s] = [live |-> TRUE, ptr_ |-> sp[o].ptr_,
                             block_ |-> sp[o].block_],
                     ![o] = DefaultShared]
WeakMoved(w, o) ==
    wp' = [wp EXCEPT ![w] = [live |-> TRUE, block_ |-> wp[o].block_,
                             ptr_ |-> wp[o].ptr_],
                     ![o] = DefaultWeak]

\* destroying an empty handle changes no counter and frees nothing
EmptyDtorFrame ==
    /\ \A o \in SIds : (OpSharedDtor(o) /\ sp[o] = DefaultShared) =>
                          UNCHANGED <<wp, blk, val, hist>>
    /\ \A o \in WIds : (OpWeakDtor(o) /\ wp[o] = DefaultWeak) =>
                          UNCHANGED <<sp, blk, val, hist>>

\* C13 as stated: a move from a distinct source hands ptr_ and block_ to the
\* target, empties the source and leaves both counters of the transferred
\* block unchanged; destroying the moved-from source changes nothing.
C13_MoveKeepsCounters ==
    [][/\ \A s, o \in SIds :
            (OpSharedMoveCtor(s, o) \/ (OpSharedMoveAssign(s, o) /\ s # o)) =>
               /\ SharedMoved(s, o)
               /\ sp[o].block_ # Null => blk'[sp[o].block_] = blk[sp[o].block_]
       /\ \A w, o \in WIds :
            (OpWeakMoveCtor(w, o) \/ (OpWeakMoveAssign(w, o) /\ w # o)) =>
               /\ WeakMoved(w, o)
               /\ wp[o].block_ # Null => blk'[wp[o].block_] = blk[wp[o].block_]
       /\ EmptyDtorFrame]_vars

\* C13, amended: as above, except that a move assignment onto a target that
\* is already attached to the source's block lowers that block's counter of
\* the handle's kind by one, the target's own release.
C13_MoveTransfers ==
    [][/\ \A s, o \in SIds :
            (OpSharedMoveCtor(s, o) \/ (OpSharedMoveAssign(s, o) /\ s # o)) =>
               LET b == sp[o].block_ IN
               /\ SharedMoved(s, o)
               /\ b # Null =>
                     blk'[b] = IF sp[s].live /\ sp[s].block_ = b
                               THEN [blk[b] EXCEPT !.shared_count_ = @ - 1]
                               ELSE blk[b]
               /\ b # Null => val'[hist.managed[b]] = val[hist.managed[b]]
       /\ \A w, o \in WIds :
            (OpWeakMoveCtor(w, o) \/ (OpWeakMoveAssign(w, o) /\ w # o)) =>
               LET b == wp[o].block_ IN
               /\ WeakMoved(w, o)
               /\ b # Null =>
                     blk'[b] = IF wp[w].live /\ wp[w].block_ = b
                               THEN [blk[b] EXCEPT !.weak_count_ = @ - 1]
                               ELSE blk[b]
               /\ b # Null => val'[hist.managed[b]] = val[hist.managed[b]]
       /\ EmptyDtorFrame]_vars

\* a SharedPtr and a WeakPtr each alone on a block that holds exactly them,
\* next to a live empty handle of the same kind, as a move leaves them
C13_Witness ==
    \E s, o \in SIds, w, x \in WIds :
        /\ sp[s].live /\ sp[s].block_ # Null /\ sp[o] = DefaultShared
        /\ blk[sp[s].block_].shared_count_ = 1
        /\ wp[w].live /\ wp[w].block_ # Null /\ wp[x] = DefaultWeak
        /\ blk[wp[w].block_].state = "live"
        /\ blk[wp[w].block_].weak_count_ = 1

\* C14: Reset(new_ptr) releases what the handle owned by the release rule;
\* with a non-null new_ptr the handle then owns it through a new block with
\* shared_count_ = 1 and weak_count_ = 0, with nullptr it is empty.  The
\* observers of the old block stay on it and never hold the new value.
C14_ResetReleasesThenOwns ==
    [][/\ \A s \in SIds :
            OpSharedResetNull(s) =>
               LET c == sp[s].block_ IN
               /\ sp' = [sp EXCEPT ![s] = DefaultShared]
               /\ wp' = wp
               /\ OthersUntouched({c} \ {Null})
               /\ c # Null => ReleasedOwner(c)
       /\ \A s \in SIds :
            OpSharedReset(s) =>
               LET c == sp[s].block_
                   v == NewValAddr(Cur)
                   nb == NewBlockAddr(Cur) IN
               /\ sp' = [sp EXCEPT ![s] = [live |-> TRUE, ptr_ |-> v, block_ |-> nb]]
               /\ blk[nb].state = "free"
               /\ blk'[nb] = [state |-> "live", shared_count_ |-> 1, weak_count_ |-> 0]
               /\ val[v] = "unalloc" /\ val'[v] = "alive"
               /\ hist'.managed[nb] = v
               /\ wp' = wp
               /\ \A w \in WIds : wp'[w].block_ # nb /\ wp'[w].ptr_ # v
               /\ \A x \in Blocks \ {c, nb} : blk'[x] = blk[x]
               /\ \A u \in AllVals : (u # v /\ (c = Null \/ u # hist.managed[c]))
                                        => val'[u] = val[u]
               /\ c # Null => ReleasedOwner(c)]_vars

\* a handle alone on a new block, while its old block has lost the value and
\* still carries an observer with the old value's address
C14_Witness ==
    \E s \in SIds, w \in WIds, c \in Blocks :
        /\ sp[s].live /\ sp[s].block_ # Null /\ sp[s].block_ # c
        /\ blk[sp[s].block_] = [state |-> "live", shared_count_ |-> 1, weak_count_ |-> 0]
        /\ blk[c].state = "live" /\ blk[c].shared_count_ = 0
        /\ wp[w].live /\ wp[w].block_ = c /\ wp[w].ptr_ = hist.managed[c]
        /\ val[hist.managed[c]] = "destroyed"

\* what releasing the reference of an observer attached to block c does to c
ReleasedObserver(c) ==
    /\ blk'[c].weak_count_ = blk[c].weak_count_ - 1
    /\ blk'[c].state =
          (IF blk[c].weak_count_ = 1 /\ blk[c].shared_count_ = 0
           THEN "deleted" ELSE "live")

\* no value is destroyed and no shared_count_ changes in this step
OwnersSideFrame ==
    /\ UNCHANGED <<sp, val>>
    /\ hist'.valDeletes = hist.valDeletes
    /\ \A x \in Blocks : blk'[x].shared_count_ = blk[x].shared_count_

\* C15: releasing a WeakPtr, by destruction or by assigning over it, never
\* destroys a value and never changes a shared_count_; it lowers weak_count_
\* by one and deletes the block iff weak_count_ becomes 0 with
\* shared_count_ already 0.
C15_WeakReleaseOnlyWeakSide ==
    [][/\ \A w \in WIds :
            OpWeakDtor(w) =>
               LET c == wp[w].block_ IN
               /\ OwnersSideFrame
               /\ \A x \in Blocks \ {c} : blk'[x] = blk[x]
               /\ c # Null => ReleasedObserver(c)
       /\ \A w, o \in WIds :
            ((OpWeakCopyAssign(w, o) \/ OpWeakMoveAssign(w, o)) /\ w # o) =>
               LET c == wp[w].block_
                   b == wp[o].block_ IN
               /\ OwnersSideFrame
               /\ \A x \in Blocks \ {c, b} : blk'[x] = blk[x]
               /\ (c # Null /\ c # b) => ReleasedObserver(c)
               /\ (c # Null /\ c = b) =>
                     /\ blk'[c].state = "live"
                     /\ blk'[c].weak_count_ \in {blk[c].weak_count_ - 1,
                                                 blk[c].weak_count_}]_vars

\* an observer's release has deleted one block, whose value its owner had
\* destroyed before; on another block an owner and its value remain
C15_Witness ==
    \E b, c \in Blocks :
        /\ hist.freedBy[b] = "WeakPtr"
        /\ hist.valDeletes[hist.managed[b]] = 1
        /\ blk[c].state = "live" /\ blk[c].shared_count_ = 1
        /\ blk[c].weak_count_ = 0
        /\ val[hist.managed[c]] = "alive"

\* C16: SharedPtr(p) with p non-null allocates a control block with
\* shared_count_ = 1 and weak_count_ = 0 and attaches the handle to it;
\* SharedPtr(nullptr) and SharedPtr() give an empty handle and allocate nothing.
C16_ConstructFromRaw ==
    [][/\ \A s \in SIds :
            OpSharedFromRaw(s) =>
               LET v == NewValAddr(Cur)
                   nb == NewBlockAddr(Cur) IN
               /\ blk[nb].state = "free"
               /\ blk'[nb] = [state |-> "live", shared_count_ |-> 1, weak_count_ |-> 0]
               /\ \A x \in Blocks \ {nb} : blk'[x] = blk[x]
               /\ sp' = [sp EXCEPT ![s] = [live |-> TRUE, ptr_ |-> v, block_ |-> nb]]
               /\ val'[v] = "alive"
               /\ hist'.managed[nb] = v
               /\ wp' = wp
       /\ \A s \in SIds :
            (OpSharedFromNull(s) \/ OpSharedDefault(s)) =>
               /\ sp' = [sp EXCEPT ![s] = DefaultShared]
               /\ UNCHANGED <<wp, blk, val, hist>>]_vars

\* a handle alone on its new block, next to an empty handle, no other block
\* having been allocated
C16_Witness ==
    \E s, t \in SIds :
        /\ sp[s].live /\ sp[s].block_ # Null /\ sp[s].ptr_ # Null
        /\ blk[sp[s].block_] = [state |-> "live", shared_count_ |-> 1, weak_count_ |-> 0]
        /\ sp[t] = DefaultShared
        /\ \A x \in Blocks \ {sp[s].block_} : blk[x].state = "free"

\* the observer w holds the address given to WeakPtr(std::string*): Ext is
\* never handed to a SharedPtr, so only that constructor and copies or moves
\* of its result carry it
FromRawPointer(w) == wp[w].live /\ wp[w].ptr_ = Ext

\* C18: WeakPtr(p) has no control block, allocates nothing and changes no
\* counter; it and every copy or move of it are expired and lock to an empty
\* SharedPtr; releasing it destroys neither the value pointed to nor a block.
C18_RawObserverHasNoBlock ==
    [][/\ \A w \in WIds, p \in {Null, Ext} :
            OpWeakFromRaw(w, p) =>
               /\ wp' = [wp EXCEPT ![w] = [live |-> TRUE, block_ |-> Null, ptr_ |-> p]]
               /\ UNCHANGED <<sp, blk, val, hist>>
       /\ \A w \in WIds :
            FromRawPointer(w) =>
               /\ wp[w].block_ = Null
               /\ IsExpired(Cur, w, 0)
               /\ \A d \in SIds :
                     WeakLock(Cur, w, d, 0) = [Cur EXCEPT !.sp[d] = DefaultShared]
       /\ \A w, o \in WIds :
            (FromRawPointer(o) /\ w # o
               /\ (OpWeakCopyCtor(w, o) \/ OpWeakCopyAssign(w, o))) =>
                  /\ wp'[w] = [live |-> TRUE, block_ |-> Null, ptr_ |-> Ext]
                  /\ wp'[o] = wp[o]
       /\ \A w, o \in WIds :
            (FromRawPointer(o) /\ w # o
               /\ (OpWeakMoveCtor(w, o) \/ OpWeakMoveAssign(w, o))) =>
                  /\ wp'[w] = [live |-> TRUE, block_ |-> Null, ptr_ |-> Ext]
                  /\ wp'[o] = DefaultWeak
       /\ \A w \in WIds :
            (FromRawPointer(w) /\ OpIsExpired(w)) => ret' = TRUE
       /\ \A w \in WIds, d \in SIds :
            (FromRawPointer(w) /\ OpWeakLock(w, d)) =>
               /\ sp' = [sp EXCEPT ![d] = DefaultShared]
               /\ UNCHANGED <<wp, blk, val, hist>>
       /\ \A w \in WIds :
            (FromRawPointer(w) /\ OpWeakDtor(w)) =>
               UNCHANGED <<sp, blk, val, hist>>
       /\ \A w, o \in WIds :
            (FromRawPointer(w) /\ (OpWeakCopyAssign(w, o) \/ OpWeakMoveAssign(w, o))) =>
               /\ UNCHANGED <<sp, val>>
               /\ \A x \in Blocks : blk'[x].state = blk[x].state
       /\ val[Ext] = "alive" /\ val'[Ext] = "alive"]_vars

\* an observer made from a raw pointer and a copy of it, found expired, while
\* a SharedPtr owns a value
C18_Witness ==
    /\ ret = TRUE
    /\ \A w \in WIds : wp[w] = [live |-> TRUE, block_ |-> Null, ptr_ |-> Ext]
    /\ \E s \in SIds : sp[s].live /\ sp[s].block_ # Null

\* C19: no live SharedPtr or WeakPtr holds the address of a deleted control
\* block, and no operation has read or written the counters of one.
C19_NoDanglingBlock ==
    /\ ~hist.uaf
    /\ \A s \in SIds :
          (sp[s].live /\ sp[s].block_ # Null) => blk[sp[s].block_].state = "live"
    /\ \A w \in WIds :
          (wp[w].live /\ wp[w].block_ # Null) => blk[wp[w].block_].state = "live"

\* a block has been deleted while an owner and an observer are attached to
\* another one
C19_Witness ==
    \E b, c \in Blocks :
        /\ blk[b].state = "deleted"
        /\ blk[c].state = "live"
        /\ OwnersIn(sp, c) # {} /\ ObserversIn(wp, c) # {}

\* C20: copy assignment between two distinct handles that are attached to the
\* same control block leaves the handles, both counters, the value and the
\* block as they were, for SharedPtr and for WeakPtr.
C20_CopyAssignWithinBlock ==
    [][/\ \A s, o \in SIds :
            (/\ OpSharedCopyAssign(s, o)
             /\ s # o /\ sp[s].block_ # Null /\ sp[s].block_ = sp[o].block_) =>
                UNCHANGED <<sp, wp, blk, val, hist>>
       /\ \A w, o \in WIds :
            (/\ OpWeakCopyAssign(w, o)
             /\ w # o /\ wp[w].block_ # Null /\ wp[w].block_ = wp[o].block_) =>
                UNCHANGED <<sp, wp, blk, val, hist>>]_vars

\* two SharedPtr on one block and two WeakPtr on one block, with nothing
\* destroyed there
C20_Witness ==
    \E b, c \in Blocks :
        /\ blk[b].state = "live" /\ blk[b].shared_count_ = 2
        /\ Cardinality(OwnersIn(sp, b)) = 2
        /\ val[hist.managed[b]] = "alive"
        /\ blk[c].state = "live" /\ blk[c].weak_count_ = 2
        /\ Cardinality(ObserversIn(wp, c)) = 2

\* ---- two threads on one control block -----------------------------------
\* Each thread has its own SharedPtr and WeakPtr objects; only the
\* ControlBlock and the value are shared.  `++block_->shared_count_` and
\* `--block_->shared_count_` on the plain size_t are a load and a later
\* store, and the tests of shared_count_ in Lock() and in the upgrade
\* constructor are loads of their own.
OwnerThread(i) == ((i - 1) % 2) + 1

\* another thread is in the middle of an operation
Overlaps(t) == \E u \in Threads \ {t} : thr[u].pc # "idle"

Raced(st, t) == [st EXCEPT !.hist.raced = @ \/ Overlaps(t)]

\* every counter is in the range that the handles of the program can give it
CountsInRange ==
    \A b \in Blocks :
        blk[b].state = "live" => blk[b].shared_count_ \in 0..NumShared

\* one owner, or several, and every WeakPtr attached, as built by
\* SharedPtr(new std::string), copies of it and WeakPtr(const SharedPtr&)
InitConc ==
    \E k \in SIds :
        /\ sp = [s \in SIds |-> IF s <= k
                                THEN [live |-> TRUE, ptr_ |-> 1, block_ |-> 1]
                                ELSE NoShared]
        /\ wp = [w \in WIds |-> [live |-> TRUE, block_ |-> 1, ptr_ |-> 1]]
        /\ blk = [b \in Blocks |->
                     IF b = 1
                     THEN [state |-> "live", shared_count_ |-> k,
                           weak_count_ |-> NumWeak]
                     ELSE FreeBlock]
        /\ val = [v \in AllVals |-> IF v \in {1, Ext} THEN "alive" ELSE "unalloc"]
        /\ hist = [valDeletes |-> [v \in AllVals |-> 0],
                   blkDeletes |-> [b \in Blocks |-> 0],
                   freedBy |-> [b \in Blocks |-> "none"],
                   managed |-> [b \in Blocks |-> IF b = 1 THEN 1 ELSE Null],
                   uaf |-> FALSE,
                   raced |-> FALSE]
        /\ ret = FALSE
        /\ thr = [t \in Threads |-> IdleThread]

\* the store of `++block_->shared_count_` without the addition
LockStore_NoIncrement(st, d, w, reg) ==
    [WrShared(st, st.wp[w].block_, reg) EXCEPT
        !.sp[d] = [live |-> TRUE, ptr_ |-> st.wp[w].ptr_, block_ |-> st.wp[w].block_]]

\* SharedPtr(const WeakPtr&): ptr_ = ptr.ptr_; block_ = ptr.block_; and the
\* store of ++block_->shared_count_ with the value loaded before
LockStore(st, d, w, reg) ==
    [WrShared(st, st.wp[w].block_, reg + 1) EXCEPT
        !.sp[d] = [live |-> TRUE, ptr_ |-> st.wp[w].ptr_, block_ |-> st.wp[w].block_]]

\* Release(): the store of --block_->shared_count_ with the value loaded before
ReleaseStore(st, s, reg) == WrShared(st, st.sp[s].block_, reg - 1)

\* Release() after the counter was found 0: delete ptr_, the test of
\* weak_count_ and delete block_; then ~SharedPtr() is over
ReleaseFree(st, s, j) ==
    LET b == st.sp[s].block_
        s2 == [DeleteVal(st, st.sp[s].ptr_) EXCEPT !.sp[s].ptr_ = Null]
        s3 == IF RdWeak(s2, b, j) = 0
              THEN [DeleteBlock(s2, b, "SharedPtr") EXCEPT !.sp[s].block_ = Null]
              ELSE s2 IN
    [s3 EXCEPT !.sp[s] = NoShared]

\* ~SharedPtr() begins: the test of block_ and the load of shared_count_
TDtorLoad(t, s) ==
    /\ thr[t].pc = "idle" /\ OwnerThread(s) = t /\ sp[s].live
    /\ CountsInRange
    /\ ret' = ret
    /\ IF sp[s].block_ = Null
       THEN /\ Set(Raced([Cur EXCEPT !.sp[s] = NoShared], t))
            /\ thr' = thr
       ELSE /\ \E j \in (IF Dangling THEN Junk ELSE {0}) :
                 thr' = [thr EXCEPT ![t] = [pc |-> "rel_store", obj |-> s, src |-> Null,
                                            reg |-> RdShared(Cur, sp[s].block_, j)]]
            /\ Set(Raced(Cur, t))

\* the store of the decrement and the test `== 0`
TDtorStore(t) ==
    /\ thr[t].pc = "rel_store"
    /\ ret' = ret
    /\ LET s == thr[t].obj
           st == Raced(ReleaseStore(Cur, s, thr[t].reg), t) IN
       IF st.blk[sp[s].block_].shared_count_ = 0
       THEN /\ Set(st)
            /\ thr' = [thr EXCEPT ![t].pc = "rel_free"]
       ELSE /\ Set([st EXCEPT !.sp[s] = NoShared])
            /\ thr' = [thr EXCEPT ![t] = IdleThread]

TDtorFree(t) ==
    /\ thr[t].pc = "rel_free"
    /\ ret' = ret
    /\ \E j \in (IF Dangling THEN Junk ELSE {0}) :
          Set(Raced(ReleaseFree(Cur, thr[t].obj, j), t))
    /\ thr' = [thr EXCEPT ![t] = IdleThread]

\* Lock() begins: the test `block_ != nullptr && block_->shared_count_ > 0`
TLockTest(t, w, d) ==
    /\ thr[t].pc = "idle" /\ OwnerThread(w) = t /\ OwnerThread(d) = t
    /\ wp[w].live /\ ~sp[d].live
    /\ CountsInRange
    /\ ret' = ret
    /\ \E j \in (IF Dangling THEN Junk ELSE {0}) :
          IF wp[w].block_ # Null /\ RdShared(Cur, wp[w].block_, j) # 0
          THEN /\ thr' = [thr EXCEPT ![t] = [pc |-> "lock_test", obj |-> d,
                                             src |-> w, reg |-> 0]]
               /\ Set(Raced(Cur, t))
          ELSE /\ thr' = thr
               /\ Set(Raced([Cur EXCEPT !.sp[d] = DefaultShared], t))

\* the upgrade constructor's own test of shared_count_
TLockTestAgain(t) ==
    /\ thr[t].pc = "lock_test"
    /\ ret' = ret
    /\ \E j \in (IF Dangling THEN Junk ELSE {0}) :
          IF RdShared(Cur, wp[thr[t].src].block_, j) # 0
          THEN /\ thr' = [thr EXCEPT ![t].pc = "lock_load"]
               /\ Set(Raced(Cur, t))
          ELSE /\ thr' = [thr EXCEPT ![t] = IdleThread]
               /\ Set(Raced([Cur EXCEPT !.sp[thr[t].obj] = DefaultShared], t))

\* the load of `++block_->shared_count_`
TLockLoad(t) ==
    /\ thr[t].pc = "lock_load"
    /\ ret' = ret
    /\ \E j \in (IF Dangling THEN Junk ELSE {0}) :
          thr' = [thr EXCEPT ![t].pc = "lock_store",
                             ![t].reg = RdShared(Cur, wp[thr[t].src].block_, j)]
    /\ Set(Raced(Cur, t))

\* the store of `++block_->shared_count_`; Lock() returns
TLockStore(t) ==
    /\ thr[t].pc = "lock_store"
    /\ ret' = ret
    /\ Set(Raced(LockStore(Cur, thr[t].obj, thr[t].src, thr[t].reg), t))
    /\ thr' = [thr EXCEPT ![t] = IdleThread]

NextConc ==
    \/ \E t \in Threads, s \in SIds : TDtorLoad(t, s)
    \/ \E t \in Threads : TDtorStore(t)
    \/ \E t \in Threads : TDtorFree(t)
    \/ \E t \in Threads, w \in WIds, d \in SIds : TLockTest(t, w, d)
    \/ \E t \in Threads : TLockTestAgain(t)
    \/ \E t \in Threads : TLockLoad(t)
    \/ \E t \in Threads : TLockStore(t)

SpecConc == InitConc /\ [][NextConc]_vars

\* no thread is in the middle of an operation
Quiescent == \A t \in Threads : thr[t].pc = "idle"

\* a SharedPtr is attached to a value that has been destroyed
OwnsFreedValue ==
    \E s \in SIds : /\ sp[s].live /\ sp[s].block_ # Null
                    /\ val[hist.managed[sp[s].block_]] = "destroyed"

\* a counter does not count the attached SharedPtr objects
LostUpdate ==
    \E b \in Blocks : /\ blk[b].state = "live"
                      /\ blk[b].shared_count_ # Cardinality(OwnersIn(sp, b))

\* C17: with the increments and decrements as separate loads and stores and
\* Lock()'s test separate from its increment, two threads on one control
\* block can end in a bad state (a lost counter update, a SharedPtr from
\* Lock() on a value that was freed after the test); this takes overlapping
\* operations: as long as no two operations have overlapped, the counter
\* counts the owners and no owner holds a freed value.
C17_BadOnlyByOverlap ==
    (Quiescent /\ (LostUpdate \/ OwnsFreedValue \/ hist.uaf
                     \/ \E v \in AllVals : hist.valDeletes[v] > 1))
        => hist.raced

\* both threads are done; Lock() has attached a SharedPtr to the value that
\* the other thread's ~SharedPtr() freed in between, and the counter shows
\* two owners where there is one
C17_Witness ==
    /\ Quiescent
    /\ hist.raced
    /\ OwnsFreedValue
    /\ LostUpdate
    /\ \E b \in Blocks : /\ blk[b].state = "live"
                         /\ blk[b].shared_count_ = 2
                         /\ Cardinality(OwnersIn(sp, b)) = 1

====
